---- MODULE Spec2Model ----
(***************************************************************************)
(* Model of the advertisement decoders of service/src/main.rs:             *)
(*   parse_bthome_data            (tag-value scan of manufacturer data)     *)
(*   parse_shelly_blu_motion_data (vendor record selection + device id)     *)
(*   parse_bthome_service_data    (tag-value scan of service data)          *)
(* Indices are 0-based as in the source; TLA+ sequences are 1-based, so     *)
(* the byte data[k] of the source is d[k + 1] here.                         *)
(***************************************************************************)
EXTENDS Integers, Sequences, FiniteSets, TLC

VARIABLES data, i, motion, illuminance, battery, button_event, pc, reads, tags,
          svc_i, svc_pc, svc_reads, svc_tags, printed,
          manufacturer_data, reading, id_reads, shelly_pc

vars == <<data, i, motion, illuminance, battery, button_event, pc, reads, tags,
          svc_i, svc_pc, svc_reads, svc_tags, printed,
          manufacturer_data, reading, id_reads, shelly_pc>>

scanVars == <<i, motion, illuminance, battery, button_event, pc, reads, tags>>
svcVars == <<svc_i, svc_pc, svc_reads, svc_tags, printed>>
shellyVars == <<manufacturer_data, reading, id_reads, shelly_pc>>

(***************************************************************************)
(* Bounds and input sets                                                   *)
(***************************************************************************)
MaxLen == 5
MaxPayload == 8

\* the five known tags, an unknown tag (0x99) that also serves as plain data
Bytes == {0, 1, 5, 33, 58, 153}

\* the buffers of the documented examples, and one buffer with all five fields
Examples == { <<1, 85>>, <<5, 16, 2, 0>>, <<33, 1>>, <<33, 0>>, <<58, 1, 2>>,
              <<153, 255, 1, 42>>,
              <<0, 7, 1, 85, 5, 16, 2, 0, 33, 1, 58, 1, 2>> }

Buffers == UNION {[1..k -> Bytes] : k \in 0..MaxLen} \cup Examples

PayloadBytes == {1, 33, 85}
ExamplePayloads == { <<1, 85, 160, 119, 126, 222, 199, 176>> }
Payloads == UNION {[1..k -> PayloadBytes] : k \in 0..MaxPayload} \cup ExamplePayloads

OtherVendors == {76}
OtherPayloads == { <<1, 85>>, <<33, 1, 1, 85, 1, 1, 1, 1>> }
Times == {0, 1700000000}

(***************************************************************************)
(* Option<T>                                                               *)
(***************************************************************************)
None == <<>>
Some(v) == <<v>>

(***************************************************************************)
(* parse_bthome_data                                                       *)
(***************************************************************************)
\* data[k]; a slice index out of range panics, the value is then never used
At(d, k) == IF k >= 0 /\ k < Len(d) THEN d[k + 1] ELSE 0

\* the effect on the scan state of evaluating data[k] for every k in ks
\* and then moving to state t: an out-of-range index panics instead
Load(d, s, ks, t) ==
  IF \A k \in ks : k >= 0 /\ k < Len(d)
    THEN [t EXCEPT !.reads = s.reads \cup ks]
    ELSE [s EXCEPT !.reads = s.reads \cup ks, !.pc = "panic"]

\* let mut motion = None; ... let mut i = 0;
ScanInit ==
  [i |-> 0, motion |-> None, illuminance |-> None, battery |-> None,
   button_event |-> None, pc |-> "loop", reads |-> {}, tags |-> <<>>]

\* let id = data[i]; i += 1;
ReadTag(d, s) ==
  Load(d, s, {s.i}, [s EXCEPT !.i = s.i + 1, !.tags = Append(s.tags, s.i)])

\* 0x00 => { i += 1; }
ArmPacketId(d, s) == [s EXCEPT !.i = s.i + 1]

\* 0x01 => { if i < data.len() { battery = Some(data[i]); i += 1; } }
ArmBattery(d, s) ==
  IF s.i < Len(d)
    THEN Load(d, s, {s.i},
              [s EXCEPT !.battery = Some(At(d, s.i)), !.i = s.i + 1])
    ELSE s

\* lux_raw: the three bytes OR-ed into disjoint bit ranges of a u32
LuxRaw(d, k) == At(d, k) + 256 * At(d, k + 1) + 65536 * At(d, k + 2)

\* variant: a short illuminance field rewinds the cursor onto its tag
ArmIlluminance_rewind(d, s) ==
  IF s.i + 2 < Len(d)
    THEN Load(d, s, {s.i, s.i + 1, s.i + 2},
              [s EXCEPT !.illuminance = Some(LuxRaw(d, s.i)), !.i = s.i + 3])
    ELSE [s EXCEPT !.i = s.i - 1]

\* variant: the bounds check asks for one byte more than the field's width
ArmIlluminance_strict(d, s) ==
  IF s.i + 3 < Len(d)
    THEN Load(d, s, {s.i, s.i + 1, s.i + 2},
              [s EXCEPT !.illuminance = Some(LuxRaw(d, s.i)), !.i = s.i + 3])
    ELSE s

\* 0x05 => { if i + 2 < data.len() { ...; i += 3; } }
\* illuminance holds lux_raw; the source stores lux_raw as f32 * 0.01
\* (lux_raw < 2^24 converts to f32 exactly)
ArmIlluminance(d, s) ==
  IF s.i + 2 < Len(d)
    THEN Load(d, s, {s.i, s.i + 1, s.i + 2},
              [s EXCEPT !.illuminance = Some(LuxRaw(d, s.i)), !.i = s.i + 3])
    ELSE s

\* 0x21 => { if i < data.len() { motion = Some(data[i] != 0); i += 1; } }
ArmMotion(d, s) ==
  IF s.i < Len(d)
    THEN Load(d, s, {s.i},
              [s EXCEPT !.motion = Some(At(d, s.i) # 0), !.i = s.i + 1])
    ELSE s

\* variant: the two bytes combined big-endian
ButtonRaw_bigendian(d, k) == 256 * At(d, k) + At(d, k + 1)

\* (data[i] as u16) | ((data[i+1] as u16) << 8)
ButtonRaw(d, k) == At(d, k) + 256 * At(d, k + 1)

\* variant: the bounds check covers only the first data byte
ArmButton_offbyone(d, s) ==
  IF s.i < Len(d)
    THEN Load(d, s, {s.i, s.i + 1},
              [s EXCEPT !.button_event = Some(ButtonRaw(d, s.i)), !.i = s.i + 2])
    ELSE s

\* 0x3A => { if i + 1 < data.len() { ...; i += 2; } }
ArmButton(d, s) ==
  IF s.i + 1 < Len(d)
    THEN Load(d, s, {s.i, s.i + 1},
              [s EXCEPT !.button_event = Some(ButtonRaw(d, s.i)), !.i = s.i + 2])
    ELSE s

\* variant: an unknown tag skips no data byte
ArmUnknown_noskip(d, s) == s

\* _ => { i += 1; }
ArmUnknown(d, s) == [s EXCEPT !.i = s.i + 1]

KnownTags == {0, 1, 5, 33, 58}

\* match id { ... } on the state after the tag has been read
Dispatch(d, id, s) ==
  CASE id = 0  -> ArmPacketId(d, s)
    [] id = 1  -> ArmBattery(d, s)
    [] id = 5  -> ArmIlluminance(d, s)
    [] id = 33 -> ArmMotion(d, s)
    [] id = 58 -> ArmButton(d, s)
    [] OTHER   -> ArmUnknown(d, s)

\* one iteration of the while loop body
Iteration(d, s) ==
  LET t == ReadTag(d, s)
  IN  IF t.pc = "panic" THEN t ELSE Dispatch(d, At(d, s.i), t)

\* while i < data.len() { ... }  followed by the return of the tuple
LoopStep(d, s) ==
  IF s.i < Len(d) THEN Iteration(d, s) ELSE [s EXCEPT !.pc = "done"]

RECURSIVE RunScan(_, _)
RunScan(d, s) == IF s.pc # "loop" THEN s ELSE RunScan(d, LoopStep(d, s))

\* the returned tuple (motion, illuminance, battery, button_event)
ResultOf(s) == <<s.motion, s.illuminance, s.battery, s.button_event>>

parse_bthome_data(d) == ResultOf(RunScan(d, ScanInit))

Cur ==
  [i |-> i, motion |-> motion, illuminance |-> illuminance, battery |-> battery,
   button_event |-> button_event, pc |-> pc, reads |-> reads, tags |-> tags]

SetScan(s) ==
  /\ i' = s.i
  /\ motion' = s.motion
  /\ illuminance' = s.illuminance
  /\ battery' = s.battery
  /\ button_event' = s.button_event
  /\ pc' = s.pc
  /\ reads' = s.reads
  /\ tags' = s.tags

SvcIdle ==
  /\ svc_i = 0
  /\ svc_pc = "idle"
  /\ svc_reads = {}
  /\ svc_tags = <<>>
  /\ printed = <<>>

ShellyIdle ==
  /\ manufacturer_data = <<>>
  /\ reading = None
  /\ id_reads = {}
  /\ shelly_pc = "idle"

ScanIdle ==
  /\ i = 0
  /\ motion = None
  /\ illuminance = None
  /\ battery = None
  /\ button_event = None
  /\ pc = "idle"
  /\ reads = {}
  /\ tags = <<>>

Init ==
  /\ data \in Buffers
  /\ i = ScanInit.i
  /\ motion = ScanInit.motion
  /\ illuminance = ScanInit.illuminance
  /\ battery = ScanInit.battery
  /\ button_event = ScanInit.button_event
  /\ pc = ScanInit.pc
  /\ reads = ScanInit.reads
  /\ tags = ScanInit.tags
  /\ SvcIdle
  /\ ShellyIdle

InLoop == pc = "loop" /\ i < Len(data)

TagPacketId ==
  /\ InLoop /\ At(data, i) = 0
  /\ SetScan(Iteration(data, Cur))
  /\ UNCHANGED <<data, svcVars, shellyVars>>

TagBattery ==
  /\ InLoop /\ At(data, i) = 1
  /\ SetScan(Iteration(data, Cur))
  /\ UNCHANGED <<data, svcVars, shellyVars>>

TagIlluminance ==
  /\ InLoop /\ At(data, i) = 5
  /\ SetScan(Iteration(data, Cur))
  /\ UNCHANGED <<data, svcVars, shellyVars>>

TagMotion ==
  /\ InLoop /\ At(data, i) = 33
  /\ SetScan(Iteration(data, Cur))
  /\ UNCHANGED <<data, svcVars, shellyVars>>

TagButton ==
  /\ InLoop /\ At(data, i) = 58
  /\ SetScan(Iteration(data, Cur))
  /\ UNCHANGED <<data, svcVars, shellyVars>>

TagUnknown ==
  /\ InLoop /\ At(data, i) \notin KnownTags
  /\ SetScan(Iteration(data, Cur))
  /\ UNCHANGED <<data, svcVars, shellyVars>>

LoopExit ==
  /\ pc = "loop" /\ ~(i < Len(data))
  /\ SetScan(LoopStep(data, Cur))
  /\ UNCHANGED <<data, svcVars, shellyVars>>

Next ==
  \/ TagPacketId
  \/ TagBattery
  \/ TagIlluminance
  \/ TagMotion
  \/ TagButton
  \/ TagUnknown
  \/ LoopExit

Spec == Init /\ [][Next]_vars

\* the scan is straight-line code: an enabled step is eventually taken
FairSpec == Spec /\ WF_vars(Next)

(***************************************************************************)
(* parse_bthome_service_data                                               *)
(***************************************************************************)
SvcInit == [i |-> 0, pc |-> "loop", reads |-> {}, tags |-> <<>>, printed |-> <<>>]

\* println!: kind names the line printed, val its argument
\* (Motion: 1 for "DETECTED", 0 for "No Motion"; Illuminance: lux, as lux_raw)
Line(kind, val) == [kind |-> kind, val |-> val]

\* data[k] read by the service-data scan, then move to state t
SvcLoad(d, s, ks, t) ==
  IF \A k \in ks : k >= 0 /\ k < Len(d)
    THEN [t EXCEPT !.reads = s.reads \cup ks]
    ELSE [s EXCEPT !.reads = s.reads \cup ks, !.pc = "panic"]

\* let id = data[i]; i += 1;
SvcReadTag(d, s) ==
  SvcLoad(d, s, {s.i}, [s EXCEPT !.i = s.i + 1, !.tags = Append(s.tags, s.i)])

\* 0x00 => { if i < data.len() { println!("  Packet ID: {}", data[i]); i += 1; } }
SvcArmPacketId(d, s) ==
  IF s.i < Len(d)
    THEN SvcLoad(d, s, {s.i},
           [s EXCEPT !.printed = Append(s.printed, Line("PacketID", At(d, s.i))),
                     !.i = s.i + 1])
    ELSE s

\* 0x01 => { if i < data.len() { println!(Battery, data[i]); i += 1; } }
SvcArmBattery(d, s) ==
  IF s.i < Len(d)
    THEN SvcLoad(d, s, {s.i},
           [s EXCEPT !.printed = Append(s.printed, Line("Battery", At(d, s.i))),
                     !.i = s.i + 1])
    ELSE s

\* 0x05 => { if i + 2 < data.len() { println!(Illuminance, lux); i += 3; } }
SvcArmIlluminance(d, s) ==
  IF s.i + 2 < Len(d)
    THEN SvcLoad(d, s, {s.i, s.i + 1, s.i + 2},
           [s EXCEPT !.printed = Append(s.printed, Line("Illuminance", LuxRaw(d, s.i))),
                     !.i = s.i + 3])
    ELSE s

\* 0x21 => { if i < data.len() { println!(Motion, ...); i += 1; } }
SvcArmMotion(d, s) ==
  IF s.i < Len(d)
    THEN SvcLoad(d, s, {s.i},
           [s EXCEPT !.printed = Append(s.printed,
                        Line("Motion", IF At(d, s.i) # 0 THEN 1 ELSE 0)),
                     !.i = s.i + 1])
    ELSE s

\* _ => { println!("  Unknown ID: 0x{:02X}", id); if i < data.len() { i += 1; } }
SvcArmUnknown(d, id, s) ==
  LET t == [s EXCEPT !.printed = Append(s.printed, Line("UnknownID", id))]
  IN  IF s.i < Len(d) THEN [t EXCEPT !.i = s.i + 1] ELSE t

SvcKnownTags == {0, 1, 5, 33}

SvcDispatch(d, id, s) ==
  CASE id = 0  -> SvcArmPacketId(d, s)
    [] id = 1  -> SvcArmBattery(d, s)
    [] id = 5  -> SvcArmIlluminance(d, s)
    [] id = 33 -> SvcArmMotion(d, s)
    [] OTHER   -> SvcArmUnknown(d, id, s)

SvcIteration(d, s) ==
  LET t == SvcReadTag(d, s)
  IN  IF t.pc = "panic" THEN t ELSE SvcDispatch(d, At(d, s.i), t)

SvcLoopStep(d, s) ==
  IF s.i < Len(d) THEN SvcIteration(d, s) ELSE [s EXCEPT !.pc = "done"]

SvcCur ==
  [i |-> svc_i, pc |-> svc_pc, reads |-> svc_reads, tags |-> svc_tags,
   printed |-> printed]

SetSvc(s) ==
  /\ svc_i' = s.i
  /\ svc_pc' = s.pc
  /\ svc_reads' = s.reads
  /\ svc_tags' = s.tags
  /\ printed' = s.printed

InitService ==
  /\ data \in Buffers
  /\ ScanIdle
  /\ svc_i = SvcInit.i
  /\ svc_pc = SvcInit.pc
  /\ svc_reads = SvcInit.reads
  /\ svc_tags = SvcInit.tags
  /\ printed = SvcInit.printed
  /\ ShellyIdle

SvcInLoop == svc_pc = "loop" /\ svc_i < Len(data)

SvcTagPacketId ==
  /\ SvcInLoop /\ At(data, svc_i) = 0
  /\ SetSvc(SvcIteration(data, SvcCur))
  /\ UNCHANGED <<data, scanVars, shellyVars>>

SvcTagBattery ==
  /\ SvcInLoop /\ At(data, svc_i) = 1
  /\ SetSvc(SvcIteration(data, SvcCur))
  /\ UNCHANGED <<data, scanVars, shellyVars>>

SvcTagIlluminance ==
  /\ SvcInLoop /\ At(data, svc_i) = 5
  /\ SetSvc(SvcIteration(data, SvcCur))
  /\ UNCHANGED <<data, scanVars, shellyVars>>

SvcTagMotion ==
  /\ SvcInLoop /\ At(data, svc_i) = 33
  /\ SetSvc(SvcIteration(data, SvcCur))
  /\ UNCHANGED <<data, scanVars, shellyVars>>

SvcTagUnknown ==
  /\ SvcInLoop /\ At(data, svc_i) \notin SvcKnownTags
  /\ SetSvc(SvcIteration(data, SvcCur))
  /\ UNCHANGED <<data, scanVars, shellyVars>>

SvcLoopExit ==
  /\ svc_pc = "loop" /\ ~(svc_i < Len(data))
  /\ SetSvc(SvcLoopStep(data, SvcCur))
  /\ UNCHANGED <<data, scanVars, shellyVars>>

NextService ==
  \/ SvcTagPacketId
  \/ SvcTagBattery
  \/ SvcTagIlluminance
  \/ SvcTagMotion
  \/ SvcTagUnknown
  \/ SvcLoopExit

SpecService == InitService /\ [][NextService]_vars

(***************************************************************************)
(* parse_shelly_blu_motion_data                                            *)
(***************************************************************************)
ShellyManufacturerId == 2985
MinShellyLen == 8

HexDigits == <<"0", "1", "2", "3", "4", "5", "6", "7",
               "8", "9", "A", "B", "C", "D", "E", "F">>

\* {:02X} of a u8: two uppercase hexadecimal digits, as a sequence of characters
Hex02(b) == <<HexDigits[(b \div 16) + 1], HexDigits[(b % 16) + 1]>>

\* the indices data.len()-1 .. data.len()-6 the format! arguments read
DeviceIdIndices(d) == {Len(d) - k : k \in 1..6}

\* variant: the six bytes rendered in payload order
device_id_forward(d) ==
  IF Len(d) >= MinShellyLen
    THEN Hex02(At(d, Len(d) - 6)) \o <<":">> \o Hex02(At(d, Len(d) - 5)) \o <<":">>
         \o Hex02(At(d, Len(d) - 4)) \o <<":">> \o Hex02(At(d, Len(d) - 3)) \o <<":">>
         \o Hex02(At(d, Len(d) - 2)) \o <<":">> \o Hex02(At(d, Len(d) - 1))
    ELSE <<"U", "n", "k", "n", "o", "w", "n">>

\* let device_id = if data.len() >= 8 { format!(...) } else { "Unknown" };
device_id(d) ==
  IF Len(d) >= MinShellyLen
    THEN Hex02(At(d, Len(d) - 1)) \o <<":">> \o Hex02(At(d, Len(d) - 2)) \o <<":">>
         \o Hex02(At(d, Len(d) - 3)) \o <<":">> \o Hex02(At(d, Len(d) - 4)) \o <<":">>
         \o Hex02(At(d, Len(d) - 5)) \o <<":">> \o Hex02(At(d, Len(d) - 6))
    ELSE <<"U", "n", "k", "n", "o", "w", "n">>

\* the indices read while device_id is built (none on the "Unknown" branch)
DeviceIdReads(d) == IF Len(d) >= MinShellyLen THEN DeviceIdIndices(d) ELSE {}

\* manufacturer_data.get(&2985)
HasShellyKey(md) == ShellyManufacturerId \in DOMAIN md

\* variant: the length threshold is the six identity bytes only
TooShort_six(d) == Len(d) < 6

\* if data.len() < 8 { return None; }
TooShort(d) == Len(d) < MinShellyLen

\* Some(ShellyBluMotionData { device_id, motion, illuminance, battery, button_event, timestamp })
ShellyReading(d, t) ==
  LET r == parse_bthome_data(d)
  IN  Some([device_id |-> device_id(d), motion |-> r[1], illuminance |-> r[2],
            battery |-> r[3], button_event |-> r[4], timestamp |-> t])

\* a HashMap<u16, Vec<u8>>: a function from the vendor ids present to payloads
ManufacturerMaps ==
  LET own == {<<>>} \cup {ShellyManufacturerId :> p : p \in Payloads}
      other == {<<>>} \cup {v :> p : v \in OtherVendors, p \in OtherPayloads}
  IN  {a @@ b : a \in own, b \in other}

InitShelly ==
  /\ data = <<>>
  /\ ScanIdle
  /\ SvcIdle
  /\ manufacturer_data \in ManufacturerMaps
  /\ reading = None
  /\ id_reads = {}
  /\ shelly_pc = "call"

\* } else { None }
ShellyNoKey ==
  /\ shelly_pc = "call"
  /\ ~HasShellyKey(manufacturer_data)
  /\ reading' = None
  /\ shelly_pc' = "returned"
  /\ UNCHANGED <<data, scanVars, svcVars, manufacturer_data, id_reads>>

\* if data.len() < 8 { return None; }
ShellyTooShort ==
  /\ shelly_pc = "call"
  /\ HasShellyKey(manufacturer_data)
  /\ TooShort(manufacturer_data[ShellyManufacturerId])
  /\ reading' = None
  /\ shelly_pc' = "returned"
  /\ UNCHANGED <<data, scanVars, svcVars, manufacturer_data, id_reads>>

\* the path that builds the reading; timestamp is the clock's seconds
ShellyDecode ==
  /\ shelly_pc = "call"
  /\ HasShellyKey(manufacturer_data)
  /\ ~TooShort(manufacturer_data[ShellyManufacturerId])
  /\ \E t \in Times :
       reading' = ShellyReading(manufacturer_data[ShellyManufacturerId], t)
  /\ id_reads' = DeviceIdReads(manufacturer_data[ShellyManufacturerId])
  /\ shelly_pc' = "returned"
  /\ UNCHANGED <<data, scanVars, svcVars, manufacturer_data>>

NextShelly ==
  \/ ShellyNoKey
  \/ ShellyTooShort
  \/ ShellyDecode

SpecShelly == InitShelly /\ [][NextShelly]_vars

(***************************************************************************)
(* Properties                                                              *)
(***************************************************************************)
fields == <<motion, illuminance, battery, button_event>>

\* a step that runs one iteration of the scan loop (it reads a tag)
IsIteration == tags' # tags

\* C1: the scan loop of parse_bthome_data terminates for every buffer: the
\* cursor strictly increases on every iteration, the loop runs at most
\* len(data) iterations, and the result tuple is eventually returned.
C1_ScanTerminates ==
  /\ [][IsIteration => i' > i]_vars
  /\ [](Len(tags) <= Len(data))
  /\ <>(pc = "done")

C1_Witness == pc = "done" /\ Len(data) >= 3 /\ Len(tags) = Len(data)

\* C2: every index read is < len(data) (no read panics), and a field is set
\* only by a step whose tag is followed by the field's full width of data
\* bytes inside the buffer, all of which that step reads.
C2_ReadsInBounds ==
  /\ [](pc # "panic" /\ \A k \in reads : k >= 0 /\ k < Len(data))
  /\ [][/\ battery' # battery =>
              (i + 1 < Len(data) /\ {i + 1} \subseteq reads')
        /\ motion' # motion =>
              (i + 1 < Len(data) /\ {i + 1} \subseteq reads')
        /\ illuminance' # illuminance =>
              (i + 3 < Len(data) /\ {i + 1, i + 2, i + 3} \subseteq reads')
        /\ button_event' # button_event =>
              (i + 2 < Len(data) /\ {i + 1, i + 2} \subseteq reads')]_vars

C2_Witness ==
  /\ pc = "done"
  /\ motion # None /\ illuminance # None /\ battery # None /\ button_event # None
  /\ (Len(data) - 1) \in reads

\* the last iteration read the tag of a multi-byte field and found fewer data
\* bytes than its width: the cursor still stands right after the tag
ShortFieldSeen ==
  /\ pc = "loop"
  /\ tags # <<>>
  /\ At(data, tags[Len(tags)]) \in {5, 58}
  /\ i = tags[Len(tags)] + 1

\* C3: once the tag of a multi-byte field (0x05, 0x3A) is read with fewer data
\* bytes remaining than its width, the scan stops: the next step leaves the
\* loop, reading no further tag and setting no further field.
C3_ScanStopsAtShortField ==
  [][ShortFieldSeen => (pc' = "done" /\ tags' = tags /\ fields' = fields)]_vars

\* reference reading of a buffer made of complete fields
Width(tag) ==
  CASE tag = 0 -> 1 [] tag = 1 -> 1 [] tag = 5 -> 3 [] tag = 33 -> 1 [] tag = 58 -> 2

RECURSIVE FieldStarts(_, _)
\* the 1-based positions of the tags of the complete fields of d, or {0} in
\* the result when d is not a concatenation of complete fields
FieldStarts(d, p) ==
  IF p > Len(d) THEN {}
  ELSE IF d[p] \notin {0, 1, 5, 33, 58} \/ p + Width(d[p]) > Len(d) THEN {0}
  ELSE {p} \cup FieldStarts(d, p + 1 + Width(d[p]))

CompleteFields(d) == 0 \notin FieldStarts(d, 1)

Max(S) == CHOOSE m \in S : \A x \in S : x <= m

\* position of the last field of d carrying tag, 0 if there is none
LastField(d, tag) ==
  LET ps == {p \in FieldStarts(d, 1) : d[p] = tag}
  IN  IF ps = {} THEN 0 ELSE Max(ps)

\* C4: for a buffer that is a concatenation of complete fields, the result
\* holds, for each tag, the value of its last occurrence: battery the data
\* byte, motion (byte != 0), button_event b0 + 256*b1, illuminance raw value
\* b0 + 256*b1 + 65536*b2; a tag that does not occur leaves its field unset,
\* and the packet counter (0x00) contributes nothing to the result.
C4_CompleteFieldsDecoded ==
  (pc = "done" /\ CompleteFields(data)) =>
    LET pb == LastField(data, 1)
        pm == LastField(data, 33)
        pl == LastField(data, 5)
        pe == LastField(data, 58)
    IN  /\ battery = IF pb = 0 THEN None ELSE Some(data[pb + 1])
        /\ motion = IF pm = 0 THEN None ELSE Some(data[pm + 1] # 0)
        /\ illuminance = IF pl = 0 THEN None
                         ELSE Some(data[pl + 1] + 256 * data[pl + 2]
                                   + 65536 * data[pl + 3])
        /\ button_event = IF pe = 0 THEN None
                          ELSE Some(data[pe + 1] + 256 * data[pe + 2])

C4_Witness ==
  /\ pc = "done"
  /\ CompleteFields(data)
  /\ LastField(data, 0) # 0
  /\ battery = Some(85) /\ motion = Some(TRUE)
  /\ illuminance = Some(528) /\ button_event = Some(513)

\* C5: an unrecognized tag never aborts the scan: its step changes no field,
\* skips exactly one byte after the tag and stays in the loop, so the next
\* tag is read two bytes further; [0x99, 0xFF, 0x01, 0x2A] yields battery 42
\* and nothing else.
C5_UnknownTagSkipsOneByte ==
  /\ [][(pc = "loop" /\ i < Len(data) /\ At(data, i) \notin {0, 1, 5, 33, 58}) =>
          (pc' = "loop" /\ i' = i + 2 /\ fields' = fields
           /\ tags' = Append(tags, i))]_vars
  /\ [](\A k \in 1..(Len(tags) - 1) :
          At(data, tags[k]) \notin {0, 1, 5, 33, 58} => tags[k + 1] = tags[k] + 2)
  /\ []((data = <<153, 255, 1, 42>> /\ pc = "done") =>
          (fields = <<None, None, Some(42), None>> /\ tags = <<0, 2>>))

C5_Witness ==
  data = <<153, 255, 1, 42>> /\ pc = "done" /\ battery = Some(42) /\ tags = <<0, 2>>

\* C6: parse_shelly_blu_motion_data returns a reading if and only if the
\* mapping has key 2985 with a payload of at least 8 bytes; entries under
\* other vendor ids do not matter.
C6_ReadingIffShellyRecord ==
  shelly_pc = "returned" =>
    ((reading # None) <=>
       (2985 \in DOMAIN manufacturer_data /\ Len(manufacturer_data[2985]) >= 8))

C6_Witness ==
  /\ shelly_pc = "returned"
  /\ reading # None
  /\ 76 \in DOMAIN manufacturer_data
  /\ Len(manufacturer_data[2985]) = 8

HexVal(c) == CHOOSE n \in 0..15 : HexDigits[n + 1] = c

\* C7: a returned reading's device_id is the last six payload bytes, last
\* byte first, as six two-digit uppercase hex groups joined by colons; it is
\* never "Unknown", and only indices inside the payload are read for it.
C7_DeviceIdFromLastSixBytes ==
  (shelly_pc = "returned" /\ reading # None) =>
    LET d == manufacturer_data[2985]
        id == reading[1].device_id
    IN  /\ Len(id) = 17
        /\ id # <<"U", "n", "k", "n", "o", "w", "n">>
        /\ \A g \in 0..5 :
             /\ id[3 * g + 1] \in {HexDigits[n] : n \in 1..16}
             /\ id[3 * g + 2] \in {HexDigits[n] : n \in 1..16}
             /\ 16 * HexVal(id[3 * g + 1]) + HexVal(id[3 * g + 2]) = d[Len(d) - g]
        /\ \A g \in 0..4 : id[3 * g + 3] = ":"
        /\ id_reads = (Len(d) - 6)..(Len(d) - 1)
        /\ \A k \in id_reads : k >= 0 /\ k < Len(d)

C7_Witness ==
  /\ shelly_pc = "returned"
  /\ reading # None
  /\ reading[1].device_id = <<"B", "0", ":", "C", "7", ":", "D", "E", ":",
                              "7", "E", ":", "7", "7", ":", "A", "0">>

\* the iteration about to run reads a tag whose w data bytes end exactly at
\* the last byte of the buffer
FieldEndsAtEnd(tag, w) ==
  pc = "loop" /\ i < Len(data) /\ At(data, i) = tag /\ i + w = Len(data) - 1

\* C8 (as stated): an illuminance field ending exactly at the last byte of the
\* buffer is rejected (illuminance not set), while a button-event field ending
\* exactly at the last byte is accepted.
C8_AsymmetricEnd ==
  [][/\ FieldEndsAtEnd(5, 3) => (illuminance' = illuminance /\ i' = i + 1)
     /\ FieldEndsAtEnd(58, 2) =>
          (button_event' = Some(At(data, i + 1) + 256 * At(data, i + 2))
           /\ i' = i + 3)]_vars

\* C8 (amended): the end of the buffer is treated alike for both fields: an
\* illuminance field and a button-event field whose data bytes end exactly at
\* the last byte of the buffer are both accepted.
C8_SymmetricEnd ==
  [][/\ FieldEndsAtEnd(5, 3) =>
          (illuminance' = Some(At(data, i + 1) + 256 * At(data, i + 2)
                               + 65536 * At(data, i + 3))
           /\ i' = i + 4)
     /\ FieldEndsAtEnd(58, 2) =>
          (button_event' = Some(At(data, i + 1) + 256 * At(data, i + 2))
           /\ i' = i + 3)]_vars

C8_Witness ==
  /\ pc = "done"
  /\ data = <<5, 16, 2, 0>>
  /\ illuminance = Some(528)
  /\ tags = <<0>>

\* the value of the last line of the given kind printed, as an Option
LastPrinted(kind) ==
  LET ks == {k \in 1..Len(printed) : printed[k].kind = kind}
  IN  IF ks = {} THEN None ELSE Some(printed[Max(ks)].val)

\* C9: parse_bthome_service_data and parse_bthome_data agree on every buffer:
\* same sequence of tag offsets, same battery, motion and illuminance values.
C9_ParsersAgree ==
  svc_pc = "done" =>
    LET s == RunScan(data, ScanInit)
    IN  /\ svc_tags = s.tags
        /\ LastPrinted("Battery") = s.battery
        /\ LastPrinted("Illuminance") = s.illuminance
        /\ s.motion = IF LastPrinted("Motion") = None THEN None
                      ELSE Some(LastPrinted("Motion") = Some(1))

\* C10: the sensor fields of a reading do not depend on the six trailing
\* identity bytes: a payload of the same length with the same leading bytes
\* yields the same motion, illuminance, battery and button_event.
C10_IdentityBytesNotDecoded ==
  (shelly_pc = "returned" /\ reading # None) =>
    LET d == manufacturer_data[2985]
        r == reading[1]
    IN  \A e \in Payloads :
          (Len(e) = Len(d) /\ SubSeq(e, 1, Len(e) - 6) = SubSeq(d, 1, Len(d) - 6))
            => parse_bthome_data(e)
                 = <<r.motion, r.illuminance, r.battery, r.button_event>>

====
